---- MODULE Spec2Model ----
(***************************************************************************)
(* The response-parsing core of app.py: extract_tables and                 *)
(* extract_sections.  A string is a sequence of one-character strings.     *)
(***************************************************************************)
EXTENDS Integers, Sequences, FiniteSets, TLC

VARIABLES
    doc,              \* the input, as the lines it was written from
    eol,              \* the line break that ends each line of doc
    text,             \* the input string handed to the extractor
    pc,               \* position of the running extractor
    pos,              \* extract_tables: where re.finditer resumes scanning
    tables,           \* extract_tables: the list `tables`
    diagnostics,      \* extract_tables: st.error calls made so far
    Lines,            \* extract_sections: text.split('\n'), the list the loop runs over
    idx,              \* extract_sections: index of the next line of Lines
    sections,         \* extract_sections: the dict `sections`, in insertion order
    current_section,  \* extract_sections: None or the current title
    current_content   \* extract_sections: the list `current_content`

vars == << doc, eol, text, pc, pos, tables, diagnostics,
           Lines, idx, sections, current_section, current_content >>

----------------------------------------------------------------------------
(* Strings *)

Min(S) == CHOOSE x \in S : \A y \in S : x <= y
Max(S) == CHOOSE x \in S : \A y \in S : x >= y

\* What str.strip() removes, and what \s matches.
Whitespace == {" ", "\t", "\n", "\r"}

\* [0-9], what \d matches.
Digits == {"0", "1", "2", "3", "4", "5", "6", "7", "8", "9"}

\* Python's None: the value of current_section before any heading, and the
\* filler of a DataFrame cell that its row does not provide.
None == << "None" >>

\* s.strip(chars): drop the leading and trailing characters that are in cs.
StripChars(s, cs) ==
    LET keep == {i \in 1..Len(s) : s[i] \notin cs}
    IN  IF keep = {} THEN << >> ELSE SubSeq(s, Min(keep), Max(keep))

\* s.strip()
Strip(s) == StripChars(s, Whitespace)

\* s.split(c): the pieces between the occurrences of c, empty pieces kept.
Split(s, c) ==
    LET n == Len(s)
        cuts == {i \in 1..n : s[i] = c}
        k == Cardinality(cuts)
        cut(j) == IF j = 0 THEN 0
                  ELSE IF j = k + 1 THEN n + 1
                  ELSE CHOOSE i \in cuts : Cardinality({x \in cuts : x < i}) = j - 1
    IN  [j \in 1..(k + 1) |-> SubSeq(s, cut(j - 1) + 1, cut(j) - 1)]

\* sep.join(parts)
RECURSIVE Join(_, _)
Join(parts, sep) ==
    IF parts = << >> THEN << >>
    ELSE IF Len(parts) = 1 THEN parts[1]
    ELSE parts[1] \o sep \o Join(Tail(parts), sep)

\* xs[1:-1]
DropEnds(xs) == IF Len(xs) <= 2 THEN << >> ELSE SubSeq(xs, 2, Len(xs) - 1)

\* [f(x) for x in xs if keep(x)] with f(x) = x.strip() and keep(x) = x.strip() != ''
NonBlankStripped(xs) ==
    LET stripped == [i \in 1..Len(xs) |-> Strip(xs[i])]
    IN  SelectSeq(stripped, LAMBDA l : l # << >>)

----------------------------------------------------------------------------
(* extract_tables: the pattern of line 63 *)

\* [\r\n]
LineBreak == {"\r", "\n"}

\* [-|:\s]
SepClass == {"-", "|", ":"} \cup Whitespace

\* \|.*?\|[\r\n] started at p: the indices of the line break that can end it.
\* '.' matches every character but "\n".
PipeLineEnds(t, p) ==
    IF p > Len(t) \/ p < 1 THEN {}
    ELSE IF t[p] # "|" THEN {}
    ELSE {e \in (p + 2)..Len(t) :
            /\ t[e] \in LineBreak
            /\ t[e - 1] = "|"
            /\ \A i \in (p + 1)..(e - 2) : t[i] # "\n"}

\* [-|:\s]+[\r\n] started at s: the indices of the line break that can end it.
SeparatorEnds(t, s) ==
    {e \in (s + 1)..Len(t) :
        /\ t[e] \in LineBreak
        /\ \A i \in s..(e - 1) : t[i] \in SepClass}

\* (?:\|.*?\|[\r\n])+ continued at p, the text up to p - 1 being matched: the
\* last index of the match.  Each round takes the shortest line (.*? is lazy)
\* and the group repeats as long as it can (+ is greedy).
RECURSIVE DataEnd(_, _)
DataEnd(t, p) ==
    IF PipeLineEnds(t, p) = {} THEN p - 1
    ELSE DataEnd(t, Min(PipeLineEnds(t, p)) + 1)

\* The whole pattern started at p: the last index of the match, 0 when there
\* is none.  Backtracking tries the header ends shortest first and, for each, the
\* separator ends longest first, and stops at the first one a data line follows.
MatchEnd(t, p) ==
    LET cands == {c \in PipeLineEnds(t, p) \X (1..Len(t)) :
                    /\ c[2] \in SeparatorEnds(t, c[1] + 1)
                    /\ PipeLineEnds(t, c[2] + 1) # {}}
    IN  IF cands = {} THEN 0
        ELSE LET h == Min({c[1] : c \in cands})
                 e == Max({c[2] : c \in {d \in cands : d[1] = h}})
             IN  DataEnd(t, e + 1)

\* re.finditer's next match at or after position from: << start, end >>,
\* << 0, 0 >> when there is none.
NextMatch(t, from) ==
    LET starts == {p \in from..Len(t) : MatchEnd(t, p) # 0}
    IN  IF starts = {} THEN << 0, 0 >>
        ELSE << Min(starts), MatchEnd(t, Min(starts)) >>

----------------------------------------------------------------------------
(* extract_tables: one matched block, lines 69-76 *)

\* lines = [line.strip() for line in table_text.split('\n') if line.strip()]
TableLines(table_text) == NonBlankStripped(Split(table_text, "\n"))

\* [cell.strip() for cell in line.split('|')[1:-1]]
Cells(line) ==
    LET parts == DropEnds(Split(line, "|"))
    IN  [i \in 1..Len(parts) |-> Strip(parts[i])]

\* headers, from lines[0]
Headers(lines) == Cells(lines[1])

\* data, one row for each of lines[2:]
Data(lines) == [i \in 1..(Len(lines) - 2) |-> Cells(lines[i + 2])]

\* pd.DataFrame(data, columns=headers) on a list of lists: no rows give an
\* empty frame; otherwise the frame is as wide as the longest row, shorter rows
\* are filled with None, and a width other than len(columns) raises ValueError.
DataFrame(data, columns) ==
    IF Len(data) = 0
    THEN [ok |-> TRUE, df |-> [columns |-> columns, rows |-> << >>]]
    ELSE LET width == Max({Len(data[i]) : i \in 1..Len(data)})
             fill(row) == [j \in 1..width |-> IF j <= Len(row) THEN row[j] ELSE None]
         IN  IF width # Len(columns)
             THEN [ok |-> FALSE, df |-> [columns |-> << >>, rows |-> << >>]]
             ELSE [ok |-> TRUE,
                   df |-> [columns |-> columns,
                           rows |-> [i \in 1..Len(data) |-> fill(data[i])]]]

\* The body of the try of lines 68-76 on one match: the frame, or the failure.
ParseBlock(table_text) ==
    LET lines == TableLines(table_text)
    IN  DataFrame(Data(lines), Headers(lines))

\* The blocks re.finditer yields on t from position from on, in order: each
\* search resumes after the end of the match before it.
RECURSIVE BlocksFrom(_, _)
BlocksFrom(t, from) ==
    LET m == NextMatch(t, from)
    IN  IF m[1] = 0 THEN << >>
        ELSE << SubSeq(t, m[1], m[2]) >> \o BlocksFrom(t, m[2] + 1)

\* extract_tables(t) as a function: the frames of the blocks that parse.
ExtractTables(t) ==
    LET blocks == BlocksFrom(t, 1)
        parsed == SelectSeq([i \in 1..Len(blocks) |-> ParseBlock(blocks[i])],
                            LAMBDA r : r.ok)
    IN  [i \in 1..Len(parsed) |-> parsed[i].df]

----------------------------------------------------------------------------
(* extract_sections: lines 83-106 *)

\* re.match(r'^\d+\.|\#\#?|^\*\*', line.strip()): digits then '.', or '#', or
\* '**', at the start of the stripped line.
IsHeading(line) ==
    LET s == Strip(line)
        n == Len(s)
        k == Min({i \in 1..n : s[i] \notin Digits} \cup {n + 1}) - 1
    IN  \/ k >= 1 /\ k + 1 <= n /\ s[k + 1] = "."
        \/ n >= 1 /\ s[1] = "#"
        \/ n >= 2 /\ s[1] = "*" /\ s[2] = "*"

\* Title, were the numbering stripped with the markup.
TitleDroppingNumber(line) ==
    StripChars(line, {"*", "#", " ", "\n", "."} \cup Digits)

\* line.strip('*# \n')
Title(line) == StripChars(line, {"*", "#", " ", "\n"})

\* Truthy, were None not told from a title.
TruthyButNone(section) == section # << >>

\* `if current_section`: neither None nor the empty string.
Truthy(section) == section # None /\ section # << >>

\* DictSet, were a key set again moved to the end.
DictSetMovingKey(d, key, value) ==
    Append(SelectSeq(d, LAMBDA e : e.key # key), [key |-> key, value |-> value])

\* sections[key] = value on a dict kept in insertion order: a key already there
\* keeps its place and takes the new value, a new key goes last.
DictSet(d, key, value) ==
    IF \E i \in 1..Len(d) : d[i].key = key
    THEN [i \in 1..Len(d) |-> IF d[i].key = key
                              THEN [key |-> key, value |-> value] ELSE d[i]]
    ELSE Append(d, [key |-> key, value |-> value])

\* Commit, without the test of line 92.
CommitUnchecked(d, section, content_lines) ==
    IF section # None /\ section # << >> /\ content_lines # << >>
    THEN DictSet(d, section, Strip(Join(content_lines, << "\n" >>)))
    ELSE d

\* Lines 90-93, and again 101-104: store the current section if it has content.
Commit(d, section, content_lines) ==
    IF Truthy(section) /\ content_lines # << >>
    THEN LET content == Strip(Join(content_lines, << "\n" >>))
         IN  IF content # << >> THEN DictSet(d, section, content) ELSE d
    ELSE d

----------------------------------------------------------------------------
(* Inputs *)

\* The longest input of free lines, in lines.
MaxLines == 4

\* The longest input of table blocks, in blocks.
MaxBlocks == 2

\* The line breaks an input is written with.
LineBreaks == { << "\n" >>, << "\r", "\n" >> }

\* The string of the lines ls, each ended by the line break e.
RECURSIVE Render(_, _)
Render(ls, e) == IF ls = << >> THEN << >> ELSE ls[1] \o e \o Render(Tail(ls), e)

\* Every sequence of at most n elements of S.
SeqsUpTo(S, n) == UNION {[1..k -> S] : k \in 0..n}

\* Lines of a text with tables: pipe-delimited lines of one and of two cells
\* (the latter with padded cells), a separator line, a blank line, a text line.
TableLineVocabulary ==
    { << "|", "a", "|" >>,
      << "|", "-", "|" >>,
      << "|", " ", "b", "|", "c", " ", "|" >>,
      << >>,
      << "x" >> }

\* Table blocks, each with the line that follows it: a one-column table, a
\* two-column table, a table whose row is wider than its header, a table with a
\* short row, a table whose only row holds a hyphen.
TableBlockVocabulary ==
    { << << "|", "a", "|" >>, << "|", "-", "|" >>, << "|", "a", "|" >>, << "x" >> >>,
      << << "|", " ", "b", "|", "c", " ", "|" >>, << "|", "-", "|" >>,
         << "|", " ", "b", "|", "c", " ", "|" >>, << >> >>,
      << << "|", "a", "|" >>, << "|", "-", "|" >>,
         << "|", " ", "b", "|", "c", " ", "|" >>, << >> >>,
      << << "|", " ", "b", "|", "c", " ", "|" >>, << "|", "-", "|" >>,
         << "|", " ", "b", "|", "c", " ", "|" >>, << "|", "a", "|" >>, << "x" >> >>,
      << << "|", "a", "|" >>, << "|", "-", "|" >>, << "|", "-", "|" >>, << "x" >> >> }

\* xss[1] \o xss[2] \o ...
RECURSIVE Flatten(_)
Flatten(xss) == IF xss = << >> THEN << >> ELSE xss[1] \o Flatten(Tail(xss))

TableDocs ==
    SeqsUpTo(TableLineVocabulary, MaxLines)
    \cup {Flatten(bs) : bs \in SeqsUpTo(TableBlockVocabulary, MaxBlocks)}

\* Lines of a text with sections: a '#' heading, a numbered heading, a
\* heading that is markup only, two body lines, a blank line.
SectionLineVocabulary ==
    { << "#", " ", "A" >>,
      << "1", ".", " ", "B" >>,
      << "*", "*" >>,
      << " ", "x" >>,
      << "y" >>,
      << >> }

\* The longest input of sections, in sections.
MaxSections == 3

\* Sections, each a heading line with the lines that follow it: the title A
\* with three different bodies, one of them blank, the title B, an empty title.
SectionVocabulary ==
    { << << "#", " ", "A" >>, << " ", "x" >> >>,
      << << "#", " ", "A" >>, << "y" >>, << >>, << " ", "x" >> >>,
      << << "#", " ", "A" >>, << >> >>,
      << << "1", ".", " ", "B" >>, << "y" >> >>,
      << << "*", "*" >>, << "y" >> >> }

\* The two inputs the specification gives results for.
IntroDetails ==
    << << "1", ".", " ", "I", "n", "t", "r", "o" >>,
       << "H", "e", "l", "l", "o", " ", "w", "o", "r", "l", "d" >>,
       << >>,
       << "2", ".", " ", "D", "e", "t", "a", "i", "l", "s" >>,
       << "M", "o", "r", "e", " ", "t", "e", "x", "t" >> >>

BoldBold2 ==
    << << "*", "*", "B", "o", "l", "d", "*", "*" >>,
       << >>,
       << "*", "*", "B", "o", "l", "d", "2", "*", "*" >>,
       << "B", "o", "d", "y" >> >>

SectionDocs ==
    SeqsUpTo(SectionLineVocabulary, MaxLines)
    \cup {Flatten(ss) : ss \in SeqsUpTo(SectionVocabulary, MaxSections)}
    \cup {IntroDetails, BoldBold2}

----------------------------------------------------------------------------
(* extract_tables as a state machine: one step for each block re.finditer yields *)

InitTables ==
    /\ doc \in TableDocs
    /\ eol \in LineBreaks
    /\ text = Render(doc, eol)
    /\ pc = "tables"
    /\ pos = 1
    /\ tables = << >>
    /\ diagnostics = 0
    /\ Lines = << >>
    /\ idx = 1
    /\ sections = << >>
    /\ current_section = None
    /\ current_content = << >>

sectionVars == << Lines, idx, sections, current_section, current_content >>
tableVars == << pos, tables, diagnostics >>

\* Lines 67-76: the block parses and its frame is appended.
TablesAppend ==
    /\ pc = "tables"
    /\ LET m == NextMatch(text, pos)
       IN  /\ m[1] # 0
           /\ LET r == ParseBlock(SubSeq(text, m[1], m[2]))
              IN  /\ r.ok
                  /\ tables' = Append(tables, r.df)
                  /\ pos' = m[2] + 1
    /\ UNCHANGED << doc, eol, text, pc, diagnostics, sectionVars >>

\* TablesError, were the exception not caught inside the loop.
TablesErrorRaises ==
    /\ pc = "tables"
    /\ LET m == NextMatch(text, pos)
       IN  /\ m[1] # 0
           /\ ~ ParseBlock(SubSeq(text, m[1], m[2])).ok
    /\ pc' = "raised"
    /\ UNCHANGED << doc, eol, text, pos, tables, diagnostics, sectionVars >>

\* Lines 77-78: the construction raised; the block is reported and left out.
TablesError ==
    /\ pc = "tables"
    /\ LET m == NextMatch(text, pos)
       IN  /\ m[1] # 0
           /\ ~ ParseBlock(SubSeq(text, m[1], m[2])).ok
           /\ diagnostics' = diagnostics + 1
           /\ pos' = m[2] + 1
    /\ UNCHANGED << doc, eol, text, pc, tables, sectionVars >>

\* Line 79: no further match.
TablesReturn ==
    /\ pc = "tables"
    /\ NextMatch(text, pos)[1] = 0
    /\ pc' = "done"
    /\ UNCHANGED << doc, eol, text, tableVars, sectionVars >>

NextTables == TablesAppend \/ TablesError \/ TablesReturn

SpecTables == InitTables /\ [][NextTables]_vars

----------------------------------------------------------------------------
(* extract_sections as a state machine: one step for each line *)

InitSections ==
    /\ doc \in SectionDocs
    /\ eol \in LineBreaks
    /\ text = Render(doc, eol)
    /\ pc = "sections"
    /\ pos = 1
    /\ tables = << >>
    /\ diagnostics = 0
    /\ Lines = Split(text, "\n")
    /\ idx = 1
    /\ sections = << >>
    /\ current_section = None
    /\ current_content = << >>

\* Lines 89-95: a heading line stores the section before it and opens its own.
SectionsHeading ==
    /\ pc = "sections"
    /\ idx <= Len(Lines)
    /\ IsHeading(Lines[idx])
    /\ sections' = Commit(sections, current_section, current_content)
    /\ current_section' = Title(Lines[idx])
    /\ current_content' = << >>
    /\ idx' = idx + 1
    /\ UNCHANGED << doc, eol, text, pc, Lines, tableVars >>

\* SectionsAppend, were the line stripped before it is kept.
SectionsAppendStripped ==
    /\ pc = "sections"
    /\ idx <= Len(Lines)
    /\ ~ IsHeading(Lines[idx])
    /\ current_section # None /\ current_section # << >>
    /\ current_content' = Append(current_content, Strip(Lines[idx]))
    /\ idx' = idx + 1
    /\ UNCHANGED << doc, eol, text, pc, Lines, sections, current_section, tableVars >>

\* Lines 96-98, current_section true: the line joins the body.
SectionsAppend ==
    /\ pc = "sections"
    /\ idx <= Len(Lines)
    /\ ~ IsHeading(Lines[idx])
    /\ Truthy(current_section)
    /\ current_content' = Append(current_content, Lines[idx])
    /\ idx' = idx + 1
    /\ UNCHANGED << doc, eol, text, pc, Lines, sections, current_section, tableVars >>

\* Lines 96-97, current_section false: the line is dropped.
SectionsDiscard ==
    /\ pc = "sections"
    /\ idx <= Len(Lines)
    /\ ~ IsHeading(Lines[idx])
    /\ ~ Truthy(current_section)
    /\ idx' = idx + 1
    /\ UNCHANGED << doc, eol, text, pc, Lines, sections, current_section,
                    current_content, tableVars >>

\* Lines 100-106: the last section is stored and the dict returned.
SectionsReturn ==
    /\ pc = "sections"
    /\ idx > Len(Lines)
    /\ sections' = Commit(sections, current_section, current_content)
    /\ pc' = "done"
    /\ UNCHANGED << doc, eol, text, Lines, idx, current_section, current_content, tableVars >>

NextSections == SectionsHeading \/ SectionsAppend \/ SectionsDiscard \/ SectionsReturn

SpecSections == InitSections /\ [][NextSections]_vars

----------------------------------------------------------------------------
(* Table blocks as the input was written *)

\* A pipe-delimited line '|c1|...|cn|'.
IsPipeLine(l) == Len(l) >= 2 /\ l[1] = "|" /\ l[Len(l)] = "|"

HasPipe(l) == \E i \in 1..Len(l) : l[i] = "|"

\* A separator line: pipes, hyphens, colons and blanks only, with a hyphen.
IsSeparatorLine(l) ==
    /\ \A i \in 1..Len(l) : l[i] \in {"|", "-", ":", " ", "\t"}
    /\ \E i \in 1..Len(l) : l[i] = "-"

\* Lines i .. i+1+m of d are a well-formed block of m data lines: a header, a
\* separator, m >= 1 data lines with as many cells as the header, and no line
\* with a pipe right before or right after.
IsBlockAt(d, i, m) ==
    /\ i >= 1 /\ m >= 1 /\ i + 1 + m <= Len(d)
    /\ IsPipeLine(d[i])
    /\ IsSeparatorLine(d[i + 1])
    /\ \A j \in 1..m : /\ IsPipeLine(d[i + 1 + j])
                       /\ Len(Cells(d[i + 1 + j])) = Len(Cells(d[i]))
    /\ i = 1 \/ ~ HasPipe(d[i - 1])
    /\ i + 1 + m = Len(d) \/ ~ HasPipe(d[i + 2 + m])

\* The Table the block stands for: the trimmed fields of its header and of
\* each of its data lines.
BlockTable(d, i, m) ==
    [columns |-> Cells(d[i]), rows |-> [j \in 1..m |-> Cells(d[i + 1 + j])]]

\* Every line of d with a pipe is part of a well-formed block.
WellFormedDoc(d) ==
    \A k \in 1..Len(d) :
        HasPipe(d[k]) =>
            \E i \in 1..Len(d), m \in 1..Len(d) :
                IsBlockAt(d, i, m) /\ k \in i..(i + 1 + m)

\* A list of Tables written back as markdown: for each a header line, a
\* separator line and a line for each row, then a blank line.
TableRow(cells) ==
    << "|" >> \o Flatten([j \in 1..Len(cells) |->
          (IF cells[j] = None THEN << "N", "o", "n", "e" >> ELSE cells[j]) \o << "|" >>])

RECURSIVE Serialize(_)
Serialize(ts) ==
    IF ts = << >> THEN << >>
    ELSE LET tb == ts[1]
             dashes == [j \in 1..Len(tb.columns) |-> << "-" >>]
         IN  Render(<< TableRow(tb.columns), TableRow(dashes) >>, << "\n" >>)
             \o Render([i \in 1..Len(tb.rows) |-> TableRow(tb.rows[i])], << "\n" >>)
             \o << "\n" >>
             \o Serialize(Tail(ts))

----------------------------------------------------------------------------
(* Claims about extract_tables *)

\* C1: every well-formed block of the input (header, separator, m >= 1 data
\* lines of n cells), with "\n" or "\r\n" line breaks and wherever it sits,
\* yields a Table whose columns are the trimmed header fields and whose rows
\* are the trimmed fields of its m data lines, in order.
C1_WellFormedBlockExtracted ==
    pc = "done" =>
        \A i \in 1..Len(doc), m \in 1..Len(doc) :
            IsBlockAt(doc, i, m) =>
                \E k \in 1..Len(tables) : tables[k] = BlockTable(doc, i, m)

\* C9: every Table returned has at least one row.
C9_EveryTableHasARow ==
    \A k \in 1..Len(tables) : Len(tables[k].rows) >= 1

\* C10: in every Table returned each row has as many cells as there are column
\* names, and every cell is a field of its data line: none is a filler.
C10_RowsMatchHeader ==
    \A k \in 1..Len(tables) :
        \A i \in 1..Len(tables[k].rows) :
            /\ Len(tables[k].rows[i]) = Len(tables[k].columns)
            /\ \A j \in 1..Len(tables[k].rows[i]) : tables[k].rows[i][j] # None

\* C6: the Tables returned for a text of well-formed blocks, written back as
\* markdown and extracted again, are returned unchanged.
C6_RoundTrip ==
    (pc = "done" /\ WellFormedDoc(doc)) =>
        ExtractTables(Serialize(tables)) = tables

\* C5: extract_tables never raises; at its return the Tables are those of the
\* matched blocks that could be constructed, in the order of the blocks, and
\* there is one diagnostic for each block that could not.
C5_BlocksFailAlone ==
    /\ pc \in {"tables", "done"}
    /\ pc = "done" =>
          LET blocks == BlocksFrom(text, 1)
              good == {i \in 1..Len(blocks) : ParseBlock(blocks[i]).ok}
              nth(j) == CHOOSE i \in good : Cardinality({x \in good : x < i}) = j - 1
          IN  /\ Len(tables) = Cardinality(good)
              /\ \A j \in 1..Len(tables) : tables[j] = ParseBlock(blocks[nth(j)]).df
              /\ diagnostics = Len(blocks) - Cardinality(good)

\* A block that fails lies before a block that yields its Table.
C5_Witness ==
    /\ pc = "done"
    /\ diagnostics = 1
    /\ Len(tables) = 1
    /\ ~ ParseBlock(BlocksFrom(text, 1)[1]).ok

----------------------------------------------------------------------------
(* Sections as the input was written *)

\* The indices of the heading lines of the input.
HeadingIdx == {i \in 1..Len(Lines) : IsHeading(Lines[i])}

\* The lines that follow heading line i, up to the next heading line or the end.
BodyLines(i) ==
    SubSeq(Lines, i + 1, Min({j \in HeadingIdx : j > i} \cup {Len(Lines) + 1}) - 1)

IsBlank(l) == \A k \in 1..Len(l) : l[k] \in Whitespace

BlankBody(i) == \A k \in 1..Len(BodyLines(i)) : IsBlank(BodyLines(i)[k])

\* The body of heading line i: its lines joined by "\n", trimmed.
BodyOf(i) == Strip(Join(BodyLines(i), << "\n" >>))

\* The heading lines with title t, and those of them with a body.
Occurrences(t) == {i \in HeadingIdx : Title(Lines[i]) = t}
Bodied(t) == {i \in Occurrences(t) : ~ BlankBody(i)}

Keys == {sections[p].key : p \in 1..Len(sections)}

\* The place of key t in the iteration order of the result.
Place(t) == CHOOSE p \in 1..Len(sections) : sections[p].key = t

\* k is line without the characters of cs at its two ends, and only those.
IsStrippedOf(k, line, cs) ==
    \E a \in 1..(Len(line) + 1), b \in 0..Len(line) :
        /\ k = SubSeq(line, a, b)
        /\ \A i \in 1..(a - 1) : line[i] \in cs
        /\ \A i \in (b + 1)..Len(line) : line[i] \in cs
        /\ k = << >> \/ (line[a] \notin cs /\ line[b] \notin cs)

\* The trimmed line without its leading markup: '#' and '*' characters, then a
\* run of digits followed by '.'.
MarkupStripped(line) ==
    LET s == Strip(line)
        n == Len(s)
        a == Min({i \in 1..n : s[i] \notin {"#", "*"}} \cup {n + 1})
        d == Min({i \in a..n : s[i] \notin Digits} \cup {n + 1})
        rest == IF d > a /\ d <= n /\ s[d] = "." THEN SubSeq(s, d + 1, n)
                ELSE SubSeq(s, a, n)
    IN  Strip(rest)

Entry(k, v) == [key |-> k, value |-> v]

----------------------------------------------------------------------------
(* Claims about extract_sections *)

\* C2 as stated: every title is its heading line, trimmed, without its leading
\* '#', '*' and digits-and-'.'; "1. Intro\nHello world\n\n2. Details\nMore text\n"
\* gives {"Intro": "Hello world", "Details": "More text"}.
C2_TitleWithoutNumbering ==
    pc = "done" =>
        /\ \A p \in 1..Len(sections) :
              \E i \in HeadingIdx : sections[p].key = MarkupStripped(Lines[i])
        /\ (doc = IntroDetails /\ eol = << "\n" >>) =>
              sections = << Entry(<< "I", "n", "t", "r", "o" >>,
                                  << "H", "e", "l", "l", "o", " ", "w", "o", "r", "l", "d" >>),
                            Entry(<< "D", "e", "t", "a", "i", "l", "s" >>,
                                  << "M", "o", "r", "e", " ", "t", "e", "x", "t" >>) >>

\* C2 amended: the title is the heading line without the '*', '#', space and
\* newline characters at its two ends, and nothing else is removed: the
\* numbering stays.  The example gives {"1. Intro": ..., "2. Details": ...}.
C2_TitleKeepsNumbering ==
    /\ (pc = "sections" /\ \E i \in HeadingIdx : i < idx) =>
          IsStrippedOf(current_section,
                       Lines[Max({i \in HeadingIdx : i < idx})],
                       {"*", "#", " ", "\n"})
    /\ pc = "done" =>
          /\ \A p \in 1..Len(sections) :
                \E i \in HeadingIdx :
                    IsStrippedOf(sections[p].key, Lines[i], {"*", "#", " ", "\n"})
          /\ (doc = IntroDetails /\ eol = << "\n" >>) =>
                sections = << Entry(<< "1", ".", " ", "I", "n", "t", "r", "o" >>,
                                    << "H", "e", "l", "l", "o", " ", "w", "o", "r", "l", "d" >>),
                              Entry(<< "2", ".", " ", "D", "e", "t", "a", "i", "l", "s" >>,
                                    << "M", "o", "r", "e", " ", "t", "e", "x", "t" >>) >>

\* The example input has been processed and has its two sections.
C2_Witness ==
    pc = "done" /\ doc = IntroDetails /\ eol = << "\n" >> /\ Len(sections) = 2

\* C3 as stated: of two heading lines with the same title and different
\* bodies, the later one's body is the value stored under the title, and the
\* title's place among the other titles is that of its first occurrence.
C3_LaterBodyFirstPlace ==
    pc = "done" =>
        \A i \in HeadingIdx, j \in HeadingIdx :
            LET t == Title(Lines[i])
            IN  ( /\ i = Min(Occurrences(t))
                  /\ j = Max(Occurrences(t))
                  /\ i < j
                  /\ BodyOf(i) # BodyOf(j) ) =>
                    /\ t \in Keys
                    /\ sections[Place(t)].value = BodyOf(j)
                    /\ \A u \in Keys \ {t} :
                          Place(t) < Place(u) <=> i < Min(Occurrences(u))

\* C3 amended: of the heading lines with the same non-empty title, two or
\* more, the last one with a body that is not blank gives the value stored
\* under the title, and the first one with such a body gives the title's place
\* among the other titles.
C3_LastBodiedFirstBodiedPlace ==
    pc = "done" =>
        \A i \in HeadingIdx :
            LET t == Title(Lines[i])
            IN  ( /\ t # << >>
                  /\ Cardinality(Occurrences(t)) >= 2
                  /\ Bodied(t) # {} ) =>
                    /\ t \in Keys
                    /\ sections[Place(t)].value = BodyOf(Max(Bodied(t)))
                    /\ \A u \in Keys \ {t} :
                          Place(t) < Place(u) <=> Min(Bodied(t)) < Min(Bodied(u))

\* A title occurs twice with different bodies, another title between them, and
\* the result holds both titles.
C3_Witness ==
    /\ pc = "done"
    /\ Len(sections) = 2
    /\ \E i \in HeadingIdx, j \in HeadingIdx, k \in HeadingIdx :
          /\ i < k /\ k < j
          /\ Title(Lines[i]) = Title(Lines[j])
          /\ Title(Lines[k]) # Title(Lines[i])
          /\ ~ BlankBody(i) /\ ~ BlankBody(j) /\ ~ BlankBody(k)
          /\ BodyOf(i) # BodyOf(j)

\* C4: every value of the result is a non-empty string with no whitespace at
\* either end, and a title whose every occurrence is followed by blank lines
\* only is not a key; "**Bold**\n\n**Bold2**\nBody\n" gives {"Bold2": "Body"}.
C4_NoEmptyBody ==
    /\ \A p \in 1..Len(sections) :
          LET v == sections[p].value
          IN  /\ v # << >>
              /\ v[1] \notin Whitespace
              /\ v[Len(v)] \notin Whitespace
    /\ pc = "done" =>
          /\ \A i \in HeadingIdx :
                Bodied(Title(Lines[i])) = {} => Title(Lines[i]) \notin Keys
          /\ (doc = BoldBold2 /\ eol = << "\n" >>) =>
                sections = << Entry(<< "B", "o", "l", "d", "2" >>,
                                    << "B", "o", "d", "y" >>) >>

\* A heading followed by blank lines only has been dropped, and a section
\* whose body had blanks around it has been stored.
C4_Witness ==
    /\ pc = "done"
    /\ sections # << >>
    /\ \E i \in HeadingIdx :
          /\ Title(Lines[i]) # << >>
          /\ BodyLines(i) # << >>
          /\ BlankBody(i)
          /\ Title(Lines[i]) \notin Keys
    /\ \E i \in HeadingIdx :
          /\ Title(Lines[i]) \in Keys
          /\ BodyOf(i) # Join(BodyLines(i), << "\n" >>)

\* C7: no line before the first heading line contributes to the result: an
\* input with no heading line gives the empty mapping, and each entry is the
\* title of a heading line with the trimmed lines that follow that heading.
C7_LinesBeforeFirstHeadingDropped ==
    /\ (\A i \in HeadingIdx : i >= idx) =>
          sections = << >> /\ current_content = << >> /\ current_section = None
    /\ pc = "done" =>
          /\ HeadingIdx = {} => sections = << >>
          /\ \A p \in 1..Len(sections) :
                \E i \in HeadingIdx :
                    /\ sections[p].key = Title(Lines[i])
                    /\ sections[p].value = BodyOf(i)

\* Body-like lines precede the first heading line and a section follows it.
C7_Witness ==
    /\ pc = "done"
    /\ sections # << >>
    /\ HeadingIdx # {}
    /\ Min(HeadingIdx) > 1
    /\ ~ IsBlank(Lines[1])

\* C8 as stated: every heading line whose following lines are not all blank
\* has an entry in the result, whatever its title, and the last heading line
\* with its title has its own body there.
C8_EveryHeadingOpensASection ==
    pc = "done" =>
        \A i \in HeadingIdx :
            ~ BlankBody(i) =>
                /\ Title(Lines[i]) \in Keys
                /\ i = Max(Occurrences(Title(Lines[i]))) =>
                      sections[Place(Title(Lines[i]))].value = BodyOf(i)

\* C8 amended: the same of every heading line whose title is not empty.
C8_TitledHeadingOpensASection ==
    pc = "done" =>
        \A i \in HeadingIdx :
            (~ BlankBody(i) /\ Title(Lines[i]) # << >>) =>
                /\ Title(Lines[i]) \in Keys
                /\ i = Max(Occurrences(Title(Lines[i]))) =>
                      sections[Place(Title(Lines[i]))].value = BodyOf(i)

\* A section of several lines, a blank one among them, has been stored.
C8_Witness ==
    /\ pc = "done"
    /\ \E i \in HeadingIdx :
          /\ Title(Lines[i]) \in Keys
          /\ i = Max(Occurrences(Title(Lines[i])))
          /\ \E k \in 2..(Len(BodyLines(i)) - 1) : IsBlank(BodyLines(i)[k])
          /\ ~ IsBlank(BodyLines(i)[1])
          /\ sections[Place(Title(Lines[i]))].value = BodyOf(i)

====
